---- MODULE Spec2Model ----
(***************************************************************************)
(* The two notebooks of the repository as state machines.                  *)
(*                                                                         *)
(*   Spec     the MovieLens notebook (src/unnamed/part_000) from the       *)
(*            ratings file to preds_df, one action per cell                *)
(*   SpecRec  recommend_movies of the MovieLens notebook, called on the    *)
(*            frames the cells above leave behind                          *)
(*   SpecArg  recommend_movies called with a predictions frame that need   *)
(*            not be the notebook's preds_df                               *)
(*   SpecNF   the Netflix notebook (src/Research Paper/net_recom.ipynb)    *)
(*            from the cleaned frame df through the evaluation cell to     *)
(*            the Estimate_Score list                                      *)
(*   SpecClean  the cleaning cells of the Netflix notebook, from the       *)
(*            lines of the rating file to the cleaned frame df             *)
(*   SpecCorr recommend of the Netflix notebook, called on a trimmed       *)
(*            frame, its pivot and the summary of the untrimmed frame      *)
(*                                                                         *)
(* Numbers the notebooks hold as floats are kept exact: a mean is the      *)
(* fraction [n |-> numerator, d |-> denominator]; a cell that may be       *)
(* missing is <<x>> when it holds x and NaN = <<>> when it holds nothing.  *)
(* The factor matrices returned by the library                             *)
(* calls (scipy svds, surprise SVD) are any matrices of the shape the      *)
(* call returns, with entries drawn from FactorVals.                       *)
(***************************************************************************)
EXTENDS Integers, Sequences, FiniteSets, TLC

VARIABLES
    pc,                          \* the cell that runs next, or the error raised
    ratings_df,                  \* part_000: rows [UserID, MovieID, Rating]
    movies_df,                   \* part_000: the MovieID column of movies_df
    R_df,                        \* part_000: [index, columns, vals]
    user_ratings_mean,           \* part_000: one fraction per row of R
    R_demeaned,                  \* part_000: matrix of fractions
    U, sigma, Vt,                \* part_000: the factors svds returns
    all_user_predicted_ratings,  \* part_000: matrix of fractions
    preds_df,                    \* part_000: [columns, vals], rows 0..n-1
    ret,                         \* part_000: what recommend_movies returned
    df1,                         \* net_recom: the lines of combined_data_1.txt
    movie_np,                    \* net_recom: one movie number per rating line
    df,                          \* net_recom: rows [Cust_Id, Movie_Id, Rating]
    df_movie_summary,            \* net_recom: Movie_Id -> [count, sum]
    movie_benchmark,             \* net_recom: <<number>> or NaN
    drop_movie_list,             \* net_recom: set of Movie_Id
    df_cust_summary,             \* net_recom: Cust_Id -> [count, sum]
    cust_benchmark,              \* net_recom: <<number>> or NaN
    drop_cust_list,              \* net_recom: set of Cust_Id
    df_p,                        \* net_recom: [index, columns, vals]
    df_title,                    \* net_recom: the Movie_Id index of df_title
    svd,                         \* net_recom: the fitted surprise.SVD
    user_683421                  \* net_recom: rows [Movie_Id, Estimate_Score]

mlvars == <<ratings_df, movies_df, R_df, user_ratings_mean, R_demeaned,
            U, sigma, Vt, all_user_predicted_ratings, preds_df, ret>>

nfvars == <<df1, movie_np, df, df_movie_summary, movie_benchmark, drop_movie_list,
            df_cust_summary, cust_benchmark, drop_cust_list, df_p, df_title,
            svd, user_683421>>

vars == <<pc, mlvars, nfvars>>

-----------------------------------------------------------------------------
(* Bounds of the model *)

\* rows read from ratings.dat
MaxRows == 2

\* ids and rating values that occur in the files; 0 and 6 lie one unit outside
\* the documented range "from 1 to 5"
UserIDs == {1, 2, 3}
MovieIDs == {1, 2}
RatingVals == {0, 1, 5, 6}

\* entries of the factor matrices
FactorVals == {-1, 1}
SigmaVals == {1}

\* the k of the notebook's call, svds(R_demeaned, k = 100)
svds_k == 100

\* svds(R_demeaned, k = 100): the number of singular triplets asked for.  The
\* notebook asks for 100 of a 6040 x 3706 matrix; the model asks for one, so
\* that a 2 x 2 ratings matrix admits the call.
k == 1

\* the documented range of a rating: "1 million movie ratings (from 1 to 5)",
\* "Rating (1 to 5)"; the rating scale of surprise's Reader()
MinRating == 1
MaxRating == 5

None == "None"
NaN == <<>>

-----------------------------------------------------------------------------
(* Helpers: sequences, exact fractions *)

Range(s) == {s[i] : i \in DOMAIN s}

\* the elements of a set of integers in ascending order
SortedSeq(S) ==
    CHOOSE s \in [1..Cardinality(S) -> S] :
        \A i, j \in 1..Cardinality(S) : i < j => s[i] < s[j]

RECURSIVE SumSeq(_)
SumSeq(s) == IF s = <<>> THEN 0 ELSE Head(s) + SumSeq(Tail(s))

Frac(a, b) == [n |-> a, d |-> b]
FracEq(x, y) == x.n * y.d = y.n * x.d
FracLess(x, y) == x.n * y.d < y.n * x.d
FracAdd(x, y) == Frac(x.n * y.d + y.n * x.d, x.d * y.d)
FracSub(x, y) == Frac(x.n * y.d - y.n * x.d, x.d * y.d)

-----------------------------------------------------------------------------
(* MovieLens notebook: the cells up to preds_df *)

Rows == [UserID : UserIDs, MovieID : MovieIDs, Rating : RatingVals]

\* ratings_df.pivot(index = 'UserID', columns = 'MovieID', values = 'Rating'):
\* pandas refuses to reshape when two rows share (UserID, MovieID)
HasDuplicates(tbl) ==
    \E i, j \in DOMAIN tbl :
        i < j /\ tbl[i].UserID = tbl[j].UserID /\ tbl[i].MovieID = tbl[j].MovieID

\* the cell of (u, m): the rating of the row of (u, m), NaN when there is none
PivotCell(tbl, u, m) ==
    IF \E i \in DOMAIN tbl : tbl[i].UserID = u /\ tbl[i].MovieID = m
    THEN LET i == CHOOSE i \in DOMAIN tbl : tbl[i].UserID = u /\ tbl[i].MovieID = m
         IN  <<tbl[i].Rating>>
    ELSE NaN

\* .fillna(0)
FillNa0(x) == IF x = NaN THEN 0 ELSE x[1]

Pivot(tbl) ==
    LET index == SortedSeq({tbl[i].UserID : i \in DOMAIN tbl})
        columns == SortedSeq({tbl[i].MovieID : i \in DOMAIN tbl})
    IN  [index |-> index, columns |-> columns,
         vals |-> [r \in DOMAIN index |->
                     [c \in DOMAIN columns |->
                        FillNa0(PivotCell(tbl, index[r], columns[c]))]]]

\* np.mean(R, axis = 1): the sum of a row over the number of its columns
NpMeanAxis1(R) == [r \in DOMAIN R |-> Frac(SumSeq(R[r]), Len(R[r]))]

\* R - user_ratings_mean.reshape(-1, 1)
Demean(R, mean) ==
    [r \in DOMAIN R |-> [c \in DOMAIN R[r] |-> FracSub(Frac(R[r][c], 1), mean[r])]]

\* np.dot(np.dot(U, sigma), Vt)[r][c]
RECURSIVE DotUSV(_, _, _, _)
DotUSV(u, s, vt, c) ==
    IF u = <<>> THEN 0
    ELSE Head(u) * Head(s) * Head(vt)[c] + DotUSV(Tail(u), Tail(s), Tail(vt), c)

\* the bug "means not added back": the rank-k product alone
PredictNoMean(u, s, vt, mean) ==
    [r \in DOMAIN u |-> [c \in DOMAIN vt[1] |-> Frac(DotUSV(u[r], s, vt, c), 1)]]

\* np.dot(np.dot(U, sigma), Vt) + user_ratings_mean.reshape(-1, 1)
Predict(u, s, vt, mean) ==
    [r \in DOMAIN u |->
       [c \in DOMAIN vt[1] |-> FracAdd(Frac(DotUSV(u[r], s, vt, c), 1), mean[r])]]

NRows(frame) == Len(frame.index)
NCols(frame) == Len(frame.columns)
MinShape(frame) == IF NRows(frame) < NCols(frame) THEN NRows(frame) ELSE NCols(frame)

\* one line of ratings.dat becomes one row of ratings_df; the DataFrame
\* constructor converts the fields to int and checks nothing else
LoadRating ==
    /\ pc = "load"
    /\ Len(ratings_df) < MaxRows
    /\ \E row \in Rows : ratings_df' = Append(ratings_df, row)
    /\ UNCHANGED <<pc, movies_df, R_df, user_ratings_mean, R_demeaned, U, sigma,
                   Vt, all_user_predicted_ratings, preds_df, ret>>
    /\ UNCHANGED nfvars

\* R_df = ratings_df.pivot(...).fillna(0)
PivotCell_R_df ==
    /\ pc = "load"
    /\ IF HasDuplicates(ratings_df)
       THEN pc' = "ValueError" /\ R_df' = R_df
       ELSE pc' = "demean" /\ R_df' = Pivot(ratings_df)
    /\ UNCHANGED <<ratings_df, movies_df, user_ratings_mean, R_demeaned, U, sigma,
                   Vt, all_user_predicted_ratings, preds_df, ret>>
    /\ UNCHANGED nfvars

\* R = R_df.as_matrix(); user_ratings_mean = ...; R_demeaned = ...
DemeanCell ==
    /\ pc = "demean"
    /\ user_ratings_mean' = NpMeanAxis1(R_df.vals)
    /\ R_demeaned' = Demean(R_df.vals, user_ratings_mean')
    /\ pc' = "svds"
    /\ UNCHANGED <<ratings_df, movies_df, R_df, U, sigma, Vt,
                   all_user_predicted_ratings, preds_df, ret>>
    /\ UNCHANGED nfvars

\* U, sigma, Vt = svds(R_demeaned, k): scipy raises unless 0 < k < min(shape)
SvdsCell ==
    /\ pc = "svds"
    /\ IF k <= 0 \/ k >= MinShape(R_df)
       THEN pc' = "ValueError" /\ UNCHANGED <<U, sigma, Vt>>
       ELSE /\ pc' = "predict"
            /\ U' \in [1..NRows(R_df) -> [1..k -> FactorVals]]
            /\ sigma' \in [1..k -> SigmaVals]
            /\ Vt' \in [1..k -> [1..NCols(R_df) -> FactorVals]]
    /\ UNCHANGED <<ratings_df, movies_df, R_df, user_ratings_mean, R_demeaned,
                   all_user_predicted_ratings, preds_df, ret>>
    /\ UNCHANGED nfvars

\* sigma = np.diag(sigma); all_user_predicted_ratings = ...
PredictCell ==
    /\ pc = "predict"
    /\ all_user_predicted_ratings' = Predict(U, sigma, Vt, user_ratings_mean)
    /\ pc' = "preds_df"
    /\ UNCHANGED <<ratings_df, movies_df, R_df, user_ratings_mean, R_demeaned,
                   U, sigma, Vt, preds_df, ret>>
    /\ UNCHANGED nfvars

\* preds_df = pd.DataFrame(all_user_predicted_ratings, columns = R_df.columns)
MakePredsDf(predicted, columns) == [columns |-> columns, vals |-> predicted]

PredsDfCell ==
    /\ pc = "preds_df"
    /\ preds_df' = MakePredsDf(all_user_predicted_ratings, R_df.columns)
    /\ pc' = "ready"
    /\ UNCHANGED <<ratings_df, movies_df, R_df, user_ratings_mean, R_demeaned,
                   U, sigma, Vt, all_user_predicted_ratings, ret>>
    /\ UNCHANGED nfvars

\* the Netflix notebook has not run
NFIdle ==
    /\ df1 = None
    /\ movie_np = None
    /\ df = None
    /\ df_movie_summary = None
    /\ movie_benchmark = None
    /\ drop_movie_list = None
    /\ df_cust_summary = None
    /\ cust_benchmark = None
    /\ drop_cust_list = None
    /\ df_p = None
    /\ df_title = None
    /\ svd = None
    /\ user_683421 = None

\* movies.dat lists the movies in ascending MovieID; movie 4 has no rating
MoviesFile == <<1, 2, 3, 4>>

Init ==
    /\ pc = "load"
    /\ ratings_df = <<>>
    /\ movies_df = MoviesFile
    /\ R_df = None
    /\ user_ratings_mean = None
    /\ R_demeaned = None
    /\ U = None
    /\ sigma = None
    /\ Vt = None
    /\ all_user_predicted_ratings = None
    /\ preds_df = None
    /\ ret = None
    /\ NFIdle

Next ==
    \/ LoadRating
    \/ PivotCell_R_df
    \/ DemeanCell
    \/ SvdsCell
    \/ PredictCell
    \/ PredsDfCell

Spec == Init /\ [][Next]_vars

-----------------------------------------------------------------------------
(* MovieLens notebook: recommend_movies *)

\* the userID and num_recommendations arguments of the calls
QueryUserIDs == {0, 1, 2, 3, 4}
NumRecs == {0, 1, 2, 5}

\* a sort key: <<fraction>> or NaN
KeyLess(x, y) == x # NaN /\ y # NaN /\ FracLess(x[1], y[1])

\* sort_values(ascending = False) with pandas' defaults (kind = 'quicksort',
\* na_position = 'last'): row a ends before row b when a's key is larger, when
\* only b's key is NaN, and, both keys NaN, when a stood before b.  Quicksort
\* is not stable: rows of equal key end in either order.
MustPrecede(keys, a, b) ==
    \/ KeyLess(keys[b], keys[a])
    \/ keys[a] # NaN /\ keys[b] = NaN
    \/ keys[a] = NaN /\ keys[b] = NaN /\ a < b

\* the bug "ascending = True": the same sort with the keys compared the other
\* way round
SortAscOrders(keys) ==
    {p \in Permutations(DOMAIN keys) :
        \A i, j \in DOMAIN keys : i < j => ~MustPrecede(keys, p[i], p[j])}

SortDescOrders(keys) ==
    {p \in Permutations(DOMAIN keys) :
        \A i, j \in DOMAIN keys : i < j => ~MustPrecede(keys, p[j], p[i])}

Reorder(s, p) == [i \in DOMAIN s |-> s[p[i]]]

Take(s, n) == IF n >= Len(s) THEN s ELSE SubSeq(s, 1, n)

\* preds_df.iloc[pos]: positions -n .. n-1 exist, the negative ones count
\* from the end; the Series is named after the label of the row
IlocExists(frame, pos) == -Len(frame.vals) <= pos /\ pos < Len(frame.vals)
IlocLabel(frame, pos) == IF pos >= 0 THEN pos ELSE Len(frame.vals) + pos
Iloc(frame, pos) == frame.vals[IlocLabel(frame, pos) + 1]

\* the bug "inplace = True": the row iloc read is left sorted in the frame
FrameSortedInPlace(frame, pos) ==
    LET r == IlocLabel(frame, pos) + 1
        keys == [c \in DOMAIN frame.vals[r] |-> <<frame.vals[r][c]>>]
        p == CHOOSE p \in SortDescOrders(keys) : TRUE
    IN  [frame EXCEPT !.vals[r] = Reorder(frame.vals[r], p)]

\* preds_df.iloc[pos].sort_values(ascending = False): inplace is False, the
\* sorted Series is a new object and the frame keeps its rows as they are
FrameAfterSort(frame, pos) == frame

\* the bug "no selection by user": every row of the ratings table
UserDataAll(tbl, userID) == tbl

\* original_ratings_df[original_ratings_df.UserID == (userID)]
UserData(tbl, userID) == SelectSeq(tbl, LAMBDA row : row.UserID = userID)

\* the MovieID column of a frame of rating rows
MovieIDColumn(rows) == {rows[i].MovieID : i \in DOMAIN rows}

\* the bug "no filter": every movie of movies_df is a candidate
NotRatedAll(mdf, user_full) == mdf

\* movies_df[~movies_df['MovieID'].isin(user_full['MovieID'])]
NotRated(mdf, user_full) ==
    SelectSeq(mdf, LAMBDA m : m \notin MovieIDColumn(user_full))

\* .merge(pd.DataFrame(sorted_user_predictions).reset_index(), how = 'left',
\* left_on = 'MovieID', right_on = 'MovieID'): a movie without a column in
\* preds_df gets NaN
MergedPrediction(columns, row, m) ==
    IF \E c \in DOMAIN columns : columns[c] = m
    THEN <<row[CHOOSE c \in DOMAIN columns : columns[c] = m]>>
    ELSE NaN

\* the bug "the rename always finds its column"
RenameAlwaysHits(frame, pos) == TRUE

\* .rename(columns = {user_row_number: 'Predictions'}): the merged column is
\* named after the label of the row iloc read, and is renamed only when that
\* label is user_row_number
RenameHits(frame, pos) == IlocLabel(frame, pos) = pos

Outcome(status, userID, num, user_full, recommendations) ==
    [status |-> status, userID |-> userID, num |-> num,
     user_full |-> user_full, recommendations |-> recommendations]

\* the outcomes of recommend_movies(predictions_df, userID, movies_df,
\* original_ratings_df, num_recommendations); the body reads the notebook's
\* preds_df, not its first argument
recommend_movies(predictions_df, userID, mdf, original_ratings_df, num) ==
    LET user_row_number == userID - 1
    IN  IF ~IlocExists(preds_df, user_row_number)
        THEN {Outcome("IndexError", userID, num, <<>>, <<>>)}
        ELSE
        LET row == Iloc(preds_df, user_row_number)
            user_data == UserData(original_ratings_df, userID)
            ratingKeys == [i \in DOMAIN user_data |-> <<Frac(user_data[i].Rating, 1)>>]
            candidates == NotRated(mdf, user_data)
            predKeys == [i \in DOMAIN candidates |->
                           MergedPrediction(preds_df.columns, row, candidates[i])]
        IN  \* rename(columns = {user_row_number: 'Predictions'}) renames nothing
            \* when the row's label is not user_row_number, and sort_values
            \* then finds no column 'Predictions'
            IF ~RenameHits(preds_df, user_row_number)
            THEN {Outcome("KeyError", userID, num, <<>>, <<>>)}
            ELSE {Outcome("ok", userID, num, Reorder(user_data, p),
                          Take(Reorder(candidates, q), num)) :
                    p \in SortDescOrders(ratingKeys), q \in SortDescOrders(predKeys)}

\* already_rated, predictions = recommend_movies(preds_df, 500, movies_df,
\* ratings_df, 10), for any userID and num_recommendations
RecommendMovies ==
    /\ pc = "ready"
    /\ \E userID \in QueryUserIDs, num \in NumRecs :
          /\ ret' \in recommend_movies(preds_df, userID, movies_df, ratings_df, num)
          /\ preds_df' = IF IlocExists(preds_df, userID - 1)
                         THEN FrameAfterSort(preds_df, userID - 1)
                         ELSE preds_df
    /\ pc' = "done"
    /\ UNCHANGED <<ratings_df, movies_df, R_df, user_ratings_mean, R_demeaned,
                   U, sigma, Vt, all_user_predicted_ratings>>
    /\ UNCHANGED nfvars

\* ratings tables of the calls: at most MaxRecRows rows, no (UserID, MovieID)
\* twice (the pivot went through), rows in ascending (UserID, MovieID)
MaxRecRows == 3
RecMovieIDs == {1, 2, 3}
RecRatingVals == {3, 5}
RecRows == [UserID : UserIDs, MovieID : RecMovieIDs, Rating : RecRatingVals]

RowBefore(a, b) ==
    a.UserID < b.UserID \/ (a.UserID = b.UserID /\ a.MovieID < b.MovieID)

RecTables ==
    UNION {{t \in [1..n -> RecRows] : \A i, j \in 1..n : i < j => RowBefore(t[i], t[j])} :
             n \in 0..MaxRecRows}

\* the notebook's state when the cell defining recommend_movies has run
InitRec ==
    /\ pc = "ready"
    /\ ratings_df \in RecTables
    /\ movies_df = MoviesFile
    /\ R_df = Pivot(ratings_df)
    /\ user_ratings_mean = NpMeanAxis1(R_df.vals)
    /\ R_demeaned = Demean(R_df.vals, user_ratings_mean)
    /\ 0 < k /\ k < MinShape(R_df)
    /\ U \in [1..NRows(R_df) -> [1..k -> FactorVals]]
    /\ sigma \in [1..k -> SigmaVals]
    /\ Vt \in [1..k -> [1..NCols(R_df) -> FactorVals]]
    /\ all_user_predicted_ratings = Predict(U, sigma, Vt, user_ratings_mean)
    /\ preds_df = MakePredsDf(all_user_predicted_ratings, R_df.columns)
    /\ ret = None
    /\ NFIdle

NextRec == RecommendMovies

SpecRec == InitRec /\ [][NextRec]_vars

\* calls of recommend_movies whose first argument need not be the notebook's
\* preds_df: the caller also holds the predictions of a second model, computed
\* by the prediction cells from factors of the opposite sign in U
ArgUserIDs == {1, 2}
ArgNumRecs == {2}

OtherPredictions ==
    MakePredsDf(Predict([r \in DOMAIN U |-> [f \in DOMAIN U[r] |-> -U[r][f]]],
                        sigma, Vt, user_ratings_mean),
                R_df.columns)

\* the call and what it returned
CallRecord(predictions_df, r) ==
    [status |-> r.status, userID |-> r.userID, num |-> r.num,
     user_full |-> r.user_full, recommendations |-> r.recommendations,
     predictions_df |-> predictions_df]

RecommendMoviesArg ==
    /\ pc = "ready"
    /\ \E predictions_df \in {preds_df, OtherPredictions},
          userID \in ArgUserIDs, num \in ArgNumRecs :
          /\ \E r \in recommend_movies(predictions_df, userID, movies_df,
                                        ratings_df, num) :
                ret' = CallRecord(predictions_df, r)
          /\ preds_df' = IF IlocExists(preds_df, userID - 1)
                         THEN FrameAfterSort(preds_df, userID - 1)
                         ELSE preds_df
    /\ pc' = "done"
    /\ UNCHANGED <<ratings_df, movies_df, R_df, user_ratings_mean, R_demeaned,
                   U, sigma, Vt, all_user_predicted_ratings>>
    /\ UNCHANGED nfvars

NextArg == RecommendMoviesArg

SpecArg == InitRec /\ [][NextArg]_vars

-----------------------------------------------------------------------------
(* Claims about the MovieLens cells (Spec) *)

Cells == {"demean", "svds", "predict", "preds_df", "ready"}

\* the rows of ratings_df of the user labelled index[r]
RowsOfUser(u) == SelectSeq(ratings_df, LAMBDA row : row.UserID = u)
RatingsOf(rows) == [i \in DOMAIN rows |-> rows[i].Rating]

ValidRatings ==
    \A i \in DOMAIN ratings_df :
        MinRating <= ratings_df[i].Rating /\ ratings_df[i].Rating <= MaxRating

\* the last row of ratings_df for (u, m)
LastRow(u, m) ==
    LET hits == {i \in DOMAIN ratings_df :
                   ratings_df[i].UserID = u /\ ratings_df[i].MovieID = m}
    IN  ratings_df[CHOOSE i \in hits : \A j \in hits : j <= i]

Position(s, x) == CHOOSE i \in DOMAIN s : s[i] = x

\* C6 (as claimed): once the pivot cell has run on a table, the matrix exists
\* and the cell of every rated (user, movie) holds the rating of the last row
\* for that pair, also when the pair has two rows.
C6_LaterRatingOverwrites ==
    (pc # "load" /\ ValidRatings) =>
        /\ pc # "ValueError"
        /\ \A i \in DOMAIN ratings_df :
              R_df.vals[Position(R_df.index, ratings_df[i].UserID)]
                       [Position(R_df.columns, ratings_df[i].MovieID)]
                = LastRow(ratings_df[i].UserID, ratings_df[i].MovieID).Rating

\* C7 (as claimed): a 0 or a 6 is rejected when it is ingested, so when the
\* ratings matrix is built, and from then on, every rating of the table it is
\* built from lies in 1..5.
C7_NoInvalidRatingReachesMatrix ==
    pc \in Cells => ValidRatings

\* the terms of the claimed prediction formula, read off the notebook: the
\* mean of all observed ratings, the user's offset from it (the notebook adds
\* back the user's row mean), and no item term
GlobalBias == Frac(SumSeq(RatingsOf(ratings_df)), Len(ratings_df))
userBias(r) == FracSub(user_ratings_mean[r], GlobalBias)
itemBias(c) == Frac(0, 1)
UserFactors(r) == [f \in 1..k |-> U[r][f] * sigma[f]]
ItemFactors(c) == [f \in 1..k |-> Vt[f][c]]
Dot(x, y) == SumSeq([f \in DOMAIN x |-> x[f] * y[f]])

C9_MeanOverObservedRatingsOnly ==
    (pc \in Cells \ {"demean"} /\ ValidRatings) =>
        \A r \in DOMAIN R_df.index :
            FracEq(user_ratings_mean[r],
                   Frac(SumSeq(RatingsOf(RowsOfUser(R_df.index[r]))),
                        Len(RowsOfUser(R_df.index[r]))))

\* C11 (as claimed): training on a table with zero records fails at its
\* start, so on an empty ratings_df no training cell completes: the notebook
\* never stands past the pivot or the de-meaning cell with a result.
C11_EmptyTableRejectedAtTrainingStart ==
    ratings_df = <<>> => pc \notin Cells

\* C19 (as claimed): the decomposition behind all_user_predicted_ratings keeps
\* as many factors as svds was asked for, and svds was asked for 50.
C19_FiftyFactorsKept ==
    pc \in {"predict", "preds_df", "ready"} =>
        /\ Len(sigma) = k
        /\ \A r \in DOMAIN U : Len(U[r]) = k
        /\ Len(Vt) = k
        /\ svds_k = 50

-----------------------------------------------------------------------------
(* Claims about recommend_movies (SpecRec) *)

Returned == pc = "done" /\ ret.status = "ok"

\* the movies a user rated in ratings_df
RatedBy(u) == MovieIDColumn(UserData(ratings_df, u))

\* the movies of movies_df a user did not rate, one per row of movies_df
UnratedRows(u) == SelectSeq(movies_df, LAMBDA m : m \notin RatedBy(u))

\* the predicted rating the call of ret read for movie m: the cell of row
\* userID - 1 of preds_df in m's column, NaN when m has no column
PredictedRating(m) ==
    MergedPrediction(preds_df.columns, Iloc(preds_df, ret.userID - 1), m)

Min(a, b) == IF a < b THEN a ELSE b

\* the row of preds_df the call read was computed from the ratings of the
\* queried user
OwnRow == ret.userID \in DOMAIN R_df.index /\ R_df.index[ret.userID] = ret.userID

\* C1: for a user with at least one rating, no returned MovieID occurs in a
\* ratings_df row of that user.
C1_NoRatedMovieRecommended ==
    (Returned /\ RatedBy(ret.userID) # {}) =>
        \A i \in DOMAIN ret.recommendations :
            ret.recommendations[i] \notin RatedBy(ret.userID)

\* C1 witness: a call for a user who rated a movie of movies_df returned
\* recommendations.
C1_Witness ==
    /\ Returned
    /\ RatedBy(ret.userID) \cap Range(movies_df) # {}
    /\ Len(ret.recommendations) >= 1

\* C3: the returned rows are in non-increasing order of predicted rating (a
\* row without a prediction after every row with one), there are exactly
\* min(num_recommendations, unrated movies of movies_df) of them, and no
\* unrated movie left out has a strictly higher prediction than a returned one.
C3_TopNByPrediction ==
    Returned =>
        LET recs == ret.recommendations
        IN  /\ \A i, j \in DOMAIN recs :
                  i < j => /\ ~KeyLess(PredictedRating(recs[i]), PredictedRating(recs[j]))
                           /\ PredictedRating(recs[i]) = NaN
                                 => PredictedRating(recs[j]) = NaN
            /\ Len(recs) = Min(ret.num, Len(UnratedRows(ret.userID)))
            /\ Range(recs) \subseteq Range(UnratedRows(ret.userID))
            /\ \A m \in Range(UnratedRows(ret.userID)) \ Range(recs) :
                  \A i \in DOMAIN recs :
                      ~KeyLess(PredictedRating(recs[i]), PredictedRating(m))

\* C3 witness: a call with num_recommendations = 1 returned one movie and left
\* out an unrated movie with a strictly lower prediction.
C3_Witness ==
    /\ Returned
    /\ OwnRow
    /\ ret.num = 1
    /\ Len(ret.recommendations) = 1
    /\ \E m \in Range(UnratedRows(ret.userID)) :
          KeyLess(PredictedRating(m), PredictedRating(ret.recommendations[1]))

\* C4 (as claimed): of two returned movies with equal predicted rating, the
\* one with the smaller MovieID comes first (stated for the calls that read
\* the queried user's own predictions).
C4_TiesByAscendingMovieID ==
    (Returned /\ OwnRow) =>
        \A i, j \in DOMAIN ret.recommendations :
            (/\ i < j
             /\ PredictedRating(ret.recommendations[i]) # NaN
             /\ PredictedRating(ret.recommendations[j]) # NaN
             /\ FracEq(PredictedRating(ret.recommendations[i])[1],
                       PredictedRating(ret.recommendations[j])[1]))
                => ret.recommendations[i] < ret.recommendations[j]

\* C5 (as claimed): a call with a userID (1 or larger) that has no row in
\* ratings_df returns normally.
C5_UnknownUserReturnsNormally ==
    (pc = "done" /\ ret.userID >= 1 /\ UserData(ratings_df, ret.userID) = <<>>)
        => ret.status = "ok"

\* C12 (as claimed): every returned movie has a prediction: none of them got
\* NaN from the merge.
C12_ReturnedMoviesHavePrediction ==
    Returned =>
        \A i \in DOMAIN ret.recommendations :
            PredictedRating(ret.recommendations[i]) # NaN

\* the userID of the call has a row of its own in preds_df
HasPredictionRow == 1 <= ret.userID /\ ret.userID <= Len(preds_df.vals)

\* C13: a call with a userID <= 0 or larger than the number of rows of
\* preds_df ends with an error and returns no recommendations.
C13_NoRowSurfacesError ==
    (pc = "done" /\ ~HasPredictionRow) =>
        /\ ret.status \in {"IndexError", "KeyError"}
        /\ ret.recommendations = <<>>

\* C13 witness: a call with userID 0 read the last row of preds_df and ended
\* with KeyError, and a call with a userID past the last row ended with
\* IndexError.
C13_Witness ==
    /\ pc = "done"
    /\ \/ ret.userID = 0 /\ ret.status = "KeyError"
       \/ ret.userID > Len(preds_df.vals) /\ ret.status = "IndexError"

\* C14: a call of recommend_movies leaves ratings_df, movies_df, preds_df and
\* the factors U, sigma, Vt as they were.
C14_RecommendMutatesNothing ==
    [][/\ ratings_df' = ratings_df
       /\ movies_df' = movies_df
       /\ preds_df' = preds_df
       /\ U' = U /\ sigma' = sigma /\ Vt' = Vt]_vars

\* C14 witness: a call has sorted a prediction row whose cells differ and the
\* rows of a user with two ratings, and returned.
C14_Witness ==
    /\ Returned
    /\ Len(ret.user_full) >= 2
    /\ \E c, e \in DOMAIN preds_df.columns :
          FracLess(Iloc(preds_df, ret.userID - 1)[c], Iloc(preds_df, ret.userID - 1)[e])

\* the prediction the predictions_df argument of the call holds for movie m
\* in the row of the queried user
ArgumentPrediction(m) ==
    MergedPrediction(ret.predictions_df.columns,
                     Iloc(ret.predictions_df, ret.userID - 1), m)

\* C15 (as claimed): the predictions a call uses are those of its
\* predictions_df argument: the returned movies are in non-increasing order of
\* the argument's predictions, whatever the notebook's preds_df holds (stated
\* for the calls with the userID of a user whose row is row userID - 1).
C15_UsesPredictionsArgument ==
    (Returned /\ OwnRow) =>
        \A i, j \in DOMAIN ret.recommendations :
            i < j => ~KeyLess(ArgumentPrediction(ret.recommendations[i]),
                              ArgumentPrediction(ret.recommendations[j]))

\* C20 (as claimed): a call with the UserID of a user of ratings_df reads the
\* prediction row computed from that user's ratings: row userID - 1 exists
\* and the row of R_df at that position is labelled userID.
C20_RowOfUserIsOwnRow ==
    (pc = "done" /\ UserData(ratings_df, ret.userID) # <<>>) =>
        /\ ret.status = "ok"
        /\ OwnRow

-----------------------------------------------------------------------------
(* Netflix notebook: from the cleaned frame df to the Estimate_Score list *)

\* rows of df after the cleaning cell
MaxNFRows == 3

\* the customer the notebook predicts for
Customer == 683421

CustIDs == {Customer, 7}
NFMovieIDs == {1, 2, 3}
NFRatingVals == {1, 5}

\* movie_titles.csv lists the movies in ascending Movie_Id; movie 4 has no
\* rating in the rating files
TitlesFile == <<1, 2, 3, 4>>

\* the biases surprise.SVD learns, and the entries of its factor vectors
NFBiasVals == {0, 1}
NFFactorVals == {1}

\* SVD(): n_factors, 100 by default in surprise, one in the model
n_factors == 1

NFRowSet == [Cust_Id : CustIDs, Movie_Id : NFMovieIDs, Rating : NFRatingVals]

\* df.groupby(key)['Rating'].agg(['count', 'mean']): the mean is sum / count
Summary(frame, key) ==
    [x \in {frame[i][key] : i \in DOMAIN frame} |->
        LET rows == SelectSeq(frame, LAMBDA row : row[key] = x)
        IN  [count |-> Len(rows),
             sum |-> SumSeq([i \in DOMAIN rows |-> rows[i].Rating])]]

\* the 'count' column in ascending order
SortedCounts(summary) ==
    LET keys == SortedSeq(DOMAIN summary)
        p == CHOOSE p \in Permutations(DOMAIN keys) :
                 \A i, j \in DOMAIN keys :
                     i < j => summary[keys[p[i]]].count <= summary[keys[p[j]]].count
    IN  [i \in DOMAIN keys |-> summary[keys[p[i]]].count]

\* Series.quantile(0.8), linear interpolation: the value at position
\* 0.8 * (n - 1) of the sorted counts, as a fraction over 5
Quantile08(s) ==
    LET pos5 == 4 * (Len(s) - 1)
        lo == pos5 \div 5
        rem == pos5 % 5
    IN  IF rem = 0 THEN Frac(5 * s[lo + 1], 5)
        ELSE Frac(5 * s[lo + 1] + rem * (s[lo + 2] - s[lo + 1]), 5)

\* round(x, 0) of a value that is not negative
Round0(x) == (2 * x.n + x.d) \div (2 * x.d)

\* round(summary['count'].quantile(0.8), 0); the quantile of no counts is NaN
Benchmark(summary) ==
    IF DOMAIN summary = {} THEN NaN ELSE <<Round0(Quantile08(SortedCounts(summary)))>>

\* the bug "count <= benchmark": a count equal to the benchmark dropped too
DropListAtMost(summary, benchmark) ==
    IF benchmark = NaN THEN {}
    ELSE {x \in DOMAIN summary : summary[x].count <= benchmark[1]}

\* summary[summary['count'] < benchmark].index; a comparison with NaN is False
DropList(summary, benchmark) ==
    IF benchmark = NaN THEN {}
    ELSE {x \in DOMAIN summary : summary[x].count < benchmark[1]}

\* the bug of a customer filter that takes its drop list from the frame it
\* is applied to, and not from the list computed before the trimming
TrimCustsRecomputed(frame, drop) ==
    LET summary == Summary(frame, "Cust_Id")
        recomputed == DropList(summary, Benchmark(summary))
    IN  SelectSeq(frame, LAMBDA row : row.Cust_Id \notin recomputed)

\* df[~df['Movie_Id'].isin(drop_movie_list)], df[~df['Cust_Id'].isin(drop_cust_list)]
TrimMovies(frame, drop) == SelectSeq(frame, LAMBDA row : row.Movie_Id \notin drop)
TrimCusts(frame, drop) == SelectSeq(frame, LAMBDA row : row.Cust_Id \notin drop)

\* pd.pivot_table(df, values = 'Rating', index = 'Cust_Id', columns =
\* 'Movie_Id'): aggfunc is the mean of the rows of a cell, NaN without rows
PivotTableCell(frame, c, m) ==
    LET rows == SelectSeq(frame, LAMBDA row : row.Cust_Id = c /\ row.Movie_Id = m)
    IN  IF rows = <<>> THEN NaN
        ELSE <<Frac(SumSeq([i \in DOMAIN rows |-> rows[i].Rating]), Len(rows))>>

PivotTable(frame) ==
    LET index == SortedSeq({frame[i].Cust_Id : i \in DOMAIN frame})
        columns == SortedSeq({frame[i].Movie_Id : i \in DOMAIN frame})
    IN  [index |-> index, columns |-> columns,
         vals |-> [r \in DOMAIN index |->
                     [c \in DOMAIN columns |->
                        PivotTableCell(frame, index[r], columns[c])]]]

\* trainset.global_mean: np.mean of the ratings, NaN when there are none
GlobalMean(frame) ==
    IF frame = <<>> THEN NaN
    ELSE <<Frac(SumSeq([i \in DOMAIN frame |-> frame[i].Rating]), Len(frame))>>

\* df[['Cust_Id', 'Movie_Id', 'Rating']][:100000]: the evaluation cell takes
\* the first 100000 rows of some 17 million; the model takes the first three
EvalRows == 3

\* data.split(n_folds=3)
n_folds == 3

\* svd = SVD(): an algorithm object that was never trained
Unfitted == "SVD()"

\* evaluate(svd, data, ...) trains svd on the training set of each fold in
\* turn.  The rows are shuffled and cut into n_folds chunks, the last of
\* Len(data) \div n_folds rows; the last training set is data without the rows
\* of the last chunk, which after the shuffle are any rows.
LastFoldTrainsets(data) ==
    {[j \in 1..Cardinality(kept) |-> data[SortedSeq(kept)[j]]] :
        kept \in {S \in SUBSET DOMAIN data :
                    Cardinality(S) = Len(data) - (Len(data) \div n_folds)}}

\* the bug "train keeps the global mean of a model that is already fitted"
TrainedKeepingMean(frame) ==
    LET users == {frame[i].Cust_Id : i \in DOMAIN frame}
        items == {frame[i].Movie_Id : i \in DOMAIN frame}
        mean == IF pc = "nf_estimate" THEN svd.global_mean ELSE GlobalMean(frame)
    IN  {[global_mean |-> mean, bu |-> bu, bi |-> bi, pu |-> pu, qi |-> qi] :
            bu \in [users -> NFBiasVals], bi \in [items -> NFBiasVals],
            pu \in [users -> [1..n_factors -> NFFactorVals]],
            qi \in [items -> [1..n_factors -> NFFactorVals]]}

\* the models svd.train(trainset) may end with: global_mean is computed, the
\* biases and factors of the users and items of the trainset are learned
TrainedModels(frame) ==
    LET users == {frame[i].Cust_Id : i \in DOMAIN frame}
        items == {frame[i].Movie_Id : i \in DOMAIN frame}
    IN  {[global_mean |-> GlobalMean(frame), bu |-> bu, bi |-> bi, pu |-> pu, qi |-> qi] :
            bu \in [users -> NFBiasVals], bi \in [items -> NFBiasVals],
            pu \in [users -> [1..n_factors -> NFFactorVals]],
            qi \in [items -> [1..n_factors -> NFFactorVals]]}

\* SVD.estimate(u, i): the global mean, plus the bias of a known user, plus
\* the bias of a known item, plus the dot product when both are known
Estimate(model, u, i) ==
    LET known_user == u \in DOMAIN model.bu
        known_item == i \in DOMAIN model.bi
        est0 == model.global_mean[1]
        est1 == IF known_user THEN FracAdd(est0, Frac(model.bu[u], 1)) ELSE est0
        est2 == IF known_item THEN FracAdd(est1, Frac(model.bi[i], 1)) ELSE est1
    IN  IF known_user /\ known_item
        THEN FracAdd(est2, Frac(SumSeq([f \in 1..n_factors |->
                                           model.qi[i][f] * model.pu[u][f]]), 1))
        ELSE est2

\* svd.predict(uid, iid).est: the estimate clipped into the rating scale of
\* Reader(), (1, 5): est = min(5, est); est = max(1, est).  With a NaN
\* estimate min(5, NaN) is 5.
PredictEst(model, u, i) ==
    IF model.global_mean = NaN THEN Frac(MaxRating, 1)
    ELSE LET est == Estimate(model, u, i)
         IN  IF FracLess(Frac(MaxRating, 1), est) THEN Frac(MaxRating, 1)
             ELSE IF FracLess(est, Frac(MinRating, 1)) THEN Frac(MinRating, 1)
             ELSE est

\* user_683421[~user_683421['Movie_Id'].isin(drop_movie_list)]
Candidates(titles, drop) == SelectSeq(titles, LAMBDA m : m \notin drop)

\* one rating line of the rating files; the lines of a movie follow its
\* header line and the cleaning cell numbers the movies in file order, so
\* Movie_Id never decreases along df
ReadRating ==
    /\ pc = "nf_load"
    /\ Len(df) < MaxNFRows
    /\ \E row \in NFRowSet :
          /\ df # <<>> => df[Len(df)].Movie_Id <= row.Movie_Id
          /\ df' = Append(df, row)
    /\ UNCHANGED <<pc, df_movie_summary, movie_benchmark, drop_movie_list,
                   df_cust_summary, cust_benchmark, drop_cust_list, df_p,
                   df_title, svd, user_683421>>
    /\ UNCHANGED <<df1, movie_np>>
    /\ UNCHANGED mlvars

\* df_movie_summary ... drop_cust_list
SummaryCell ==
    /\ pc = "nf_load"
    /\ df_movie_summary' = Summary(df, "Movie_Id")
    /\ movie_benchmark' = Benchmark(df_movie_summary')
    /\ drop_movie_list' = DropList(df_movie_summary', movie_benchmark')
    /\ df_cust_summary' = Summary(df, "Cust_Id")
    /\ cust_benchmark' = Benchmark(df_cust_summary')
    /\ drop_cust_list' = DropList(df_cust_summary', cust_benchmark')
    /\ pc' = "nf_trim"
    /\ UNCHANGED <<df, df_p, df_title, svd, user_683421>>
    /\ UNCHANGED <<df1, movie_np>>
    /\ UNCHANGED mlvars

\* the two filters of the trimming cell
TrimCell ==
    /\ pc = "nf_trim"
    /\ df' = TrimCusts(TrimMovies(df, drop_movie_list), drop_cust_list)
    /\ pc' = "nf_pivot"
    /\ UNCHANGED <<df_movie_summary, movie_benchmark, drop_movie_list,
                   df_cust_summary, cust_benchmark, drop_cust_list, df_p,
                   df_title, svd, user_683421>>
    /\ UNCHANGED <<df1, movie_np>>
    /\ UNCHANGED mlvars

\* df_p = pd.pivot_table(...)
PivotTableStep ==
    /\ pc = "nf_pivot"
    /\ df_p' = PivotTable(df)
    /\ pc' = "nf_title"
    /\ UNCHANGED <<df, df_movie_summary, movie_benchmark, drop_movie_list,
                   df_cust_summary, cust_benchmark, drop_cust_list,
                   df_title, svd, user_683421>>
    /\ UNCHANGED <<df1, movie_np>>
    /\ UNCHANGED mlvars

\* df_title = pd.read_csv('./movie_titles.csv', ...)
TitleCell ==
    /\ pc = "nf_title"
    /\ df_title' = TitlesFile
    /\ pc' = "nf_evaluate"
    /\ UNCHANGED <<df, df_movie_summary, movie_benchmark, drop_movie_list,
                   df_cust_summary, cust_benchmark, drop_cust_list, df_p,
                   svd, user_683421>>
    /\ UNCHANGED <<df1, movie_np>>
    /\ UNCHANGED mlvars

\* reader = Reader(); data = ...[:100000]; data.split(n_folds=3); svd = SVD();
\* evaluate(svd, data, measures=['RMSE', 'MAE']): surprise raises ValueError
\* ('Incorrect value for n_folds.') when there are fewer rows than folds, and
\* otherwise leaves svd trained on the last fold's training set
EvaluateCell ==
    /\ pc = "nf_evaluate"
    /\ LET data == Take(df, EvalRows)
       IN  IF n_folds > Len(data)
           THEN svd' = Unfitted /\ pc' = "ValueError"
           ELSE /\ \E trainset \in LastFoldTrainsets(data) :
                      svd' \in TrainedModels(trainset)
                /\ pc' = "nf_estimate"
    /\ UNCHANGED <<df, df_movie_summary, movie_benchmark, drop_movie_list,
                   df_cust_summary, cust_benchmark, drop_cust_list, df_p,
                   df_title, user_683421>>
    /\ UNCHANGED <<df1, movie_np>>
    /\ UNCHANGED mlvars

\* the cell that trains svd on the full trimmed df, scores every candidate
\* for the customer and sorts by Estimate_Score
EstimateCell ==
    /\ pc = "nf_estimate"
    /\ \E model \in TrainedModels(df),
          candidates \in {Candidates(df_title, drop_movie_list)} :
          \E scored \in {[i \in DOMAIN candidates |->
                            [Movie_Id |-> candidates[i],
                             Estimate_Score |-> PredictEst(model, Customer, candidates[i])]]} :
              \E keys \in {[i \in DOMAIN scored |-> <<scored[i].Estimate_Score>>]} :
                  \E p \in SortDescOrders(keys) :
                      /\ svd' = model
                      /\ user_683421' = Reorder(scored, p)
    /\ pc' = "nf_done"
    /\ UNCHANGED <<df, df_movie_summary, movie_benchmark, drop_movie_list,
                   df_cust_summary, cust_benchmark, drop_cust_list, df_p, df_title>>
    /\ UNCHANGED <<df1, movie_np>>
    /\ UNCHANGED mlvars

MLIdle ==
    /\ ratings_df = None
    /\ movies_df = None
    /\ R_df = None
    /\ user_ratings_mean = None
    /\ R_demeaned = None
    /\ U = None
    /\ sigma = None
    /\ Vt = None
    /\ all_user_predicted_ratings = None
    /\ preds_df = None
    /\ ret = None

InitNF ==
    /\ pc = "nf_load"
    /\ df1 = None
    /\ movie_np = None
    /\ df = <<>>
    /\ df_movie_summary = None
    /\ movie_benchmark = None
    /\ drop_movie_list = None
    /\ df_cust_summary = None
    /\ cust_benchmark = None
    /\ drop_cust_list = None
    /\ df_p = None
    /\ df_title = None
    /\ svd = None
    /\ user_683421 = None
    /\ MLIdle

NextNF ==
    \/ ReadRating
    \/ SummaryCell
    \/ TrimCell
    \/ PivotTableStep
    \/ TitleCell
    \/ EvaluateCell
    \/ EstimateCell

SpecNF == InitNF /\ [][NextNF]_vars

-----------------------------------------------------------------------------
(* Claims about the Netflix notebook (SpecNF) *)

\* C2 (as claimed): no movie of the Estimate_Score list has a row in df with
\* the customer's Cust_Id.
C2_RatedMoviesNotListed ==
    pc = "nf_done" =>
        \A i \in DOMAIN user_683421 :
            ~\E j \in DOMAIN df :
                /\ df[j].Cust_Id = Customer
                /\ df[j].Movie_Id = user_683421[i].Movie_Id

-----------------------------------------------------------------------------
(* Netflix notebook: from the rating file to the cleaned frame df *)

\* lines of the rating file
MaxLines == 4

\* the movie numbers a header line of the file can carry
HeaderIDs == {1, 2, 3}

\* read_csv(..., names = ['Cust_Id', 'Rating'], usecols = [0,1]): a header
\* line "m:" becomes a row with Cust_Id "m:" (kept as m) and Rating NaN, a
\* rating line a row with its customer and <<rating>>
HeaderLines == [Cust_Id : HeaderIDs, Rating : {NaN}]
RatingLines == [Cust_Id : CustIDs, Rating : {<<r>> : r \in NFRatingVals}]

IsHeader(line) == line.Rating = NaN

\* df_nan['index']: the positions (from 0) of the rows whose Rating is null
NanIndex(frame) == SortedSeq({i - 1 : i \in {i \in DOMAIN frame : IsHeader(frame[i])}})

\* np.full((1, n), v), flattened by np.append
NpFull(n, v) == [t \in 1..n |-> v]

\* the bug "i - j": the header row counted as a rating row
GapWithHeader(i, j) == i - j

\* i - j - 1: the rows between the header at j and the header at i
Gap(i, j) == i - j - 1

\* the loop over zip(df_nan['index'][1:], df_nan['index'][:-1]) from its
\* pair-th pair on: movie_np grows by Gap(i, j) copies of movie_id, and
\* movie_id by one
RECURSIVE MovieLoop(_, _, _, _)
MovieLoop(index, pair, np, movie_id) ==
    IF pair >= Len(index) THEN [movie_np |-> np, movie_id |-> movie_id]
    ELSE MovieLoop(index, pair + 1,
                   np \o NpFull(Gap(index[pair + 1], index[pair]), movie_id),
                   movie_id + 1)

\* movie_np = []; movie_id = 1; the loop; then last_record = np.full((1,
\* len(df) - df_nan.iloc[-1, 0] - 1), movie_id) is appended
MovieNp(frame) ==
    LET index == NanIndex(frame)
        loop == MovieLoop(index, 1, <<>>, 1)
    IN  loop.movie_np
            \o NpFull(Len(frame) - index[Len(index)] - 1, loop.movie_id)

\* df[pd.notnull(df['Rating'])]
NotNull(frame) == SelectSeq(frame, LAMBDA line : ~IsHeader(line))

\* the last header line of a frame
LastHeader(frame) ==
    frame[CHOOSE i \in DOMAIN frame :
              IsHeader(frame[i]) /\ \A j \in DOMAIN frame : IsHeader(frame[j]) => j <= i]

\* one more line of the file: the file begins with a header line and the
\* movie numbers of its header lines increase
ReadLine ==
    /\ pc = "nf_read"
    /\ Len(df1) < MaxLines
    /\ \E line \in HeaderLines \cup RatingLines :
          /\ df1 = <<>> => IsHeader(line)
          /\ (df1 # <<>> /\ IsHeader(line)) => LastHeader(df1).Cust_Id < line.Cust_Id
          /\ df1' = Append(df1, line)
    /\ UNCHANGED <<pc, movie_np, df, df_movie_summary, movie_benchmark,
                   drop_movie_list, df_cust_summary, cust_benchmark,
                   drop_cust_list, df_p, df_title, svd, user_683421>>
    /\ UNCHANGED mlvars

\* df = df1; df.index = np.arange(0,len(df))
CombineCell ==
    /\ pc = "nf_read"
    /\ df' = df1
    /\ pc' = "nf_loop"
    /\ UNCHANGED <<df1, movie_np, df_movie_summary, movie_benchmark,
                   drop_movie_list, df_cust_summary, cust_benchmark,
                   drop_cust_list, df_p, df_title, svd, user_683421>>
    /\ UNCHANGED mlvars

\* the cell of the movie_np loop; df_nan.iloc[-1, 0] raises IndexError when
\* no row has a null Rating
MovieNpCell ==
    /\ pc = "nf_loop"
    /\ IF NanIndex(df) = <<>>
       THEN pc' = "IndexError" /\ movie_np' = movie_np
       ELSE pc' = "nf_assign" /\ movie_np' = MovieNp(df)
    /\ UNCHANGED <<df1, df, df_movie_summary, movie_benchmark,
                   drop_movie_list, df_cust_summary, cust_benchmark,
                   drop_cust_list, df_p, df_title, svd, user_683421>>
    /\ UNCHANGED mlvars

\* df = df[pd.notnull(df['Rating'])]; df['Movie_Id'] = movie_np.astype(int);
\* df['Cust_Id'] = df['Cust_Id'].astype(int): pandas raises ValueError when
\* the array and the frame differ in length
AssignCell ==
    /\ pc = "nf_assign"
    /\ LET kept == NotNull(df)
       IN  IF Len(movie_np) # Len(kept)
           THEN pc' = "ValueError" /\ df' = kept
           ELSE /\ pc' = "nf_cleaned"
                /\ df' = [t \in DOMAIN kept |->
                             [Cust_Id |-> kept[t].Cust_Id,
                              Movie_Id |-> movie_np[t],
                              Rating |-> kept[t].Rating[1]]]
    /\ UNCHANGED <<df1, movie_np, df_movie_summary, movie_benchmark,
                   drop_movie_list, df_cust_summary, cust_benchmark,
                   drop_cust_list, df_p, df_title, svd, user_683421>>
    /\ UNCHANGED mlvars

InitClean ==
    /\ pc = "nf_read"
    /\ df1 = <<>>
    /\ movie_np = None
    /\ df = None
    /\ df_movie_summary = None
    /\ movie_benchmark = None
    /\ drop_movie_list = None
    /\ df_cust_summary = None
    /\ cust_benchmark = None
    /\ drop_cust_list = None
    /\ df_p = None
    /\ df_title = None
    /\ svd = None
    /\ user_683421 = None
    /\ MLIdle

NextClean ==
    \/ ReadLine
    \/ CombineCell
    \/ MovieNpCell
    \/ AssignCell

SpecClean == InitClean /\ [][NextClean]_vars

-----------------------------------------------------------------------------
(* Claims about the cleaning cells (SpecClean) *)

\* the rating lines of the file
RatingLinesOf(file) == {i \in DOMAIN file : ~IsHeader(file[i])}

\* C22: for a file that begins with a header line, movie_np has one entry per
\* rating line when the loop is done, and the assignment of the Movie_Id
\* column never fails for a difference in length.
C22_MovieNpHasOneEntryPerRatingLine ==
    /\ pc \in {"nf_assign", "nf_cleaned"} =>
          Len(movie_np) = Cardinality(RatingLinesOf(df1))
    /\ pc = "nf_cleaned" => Len(df) = Len(movie_np)
    /\ pc # "ValueError"

\* C22 witness: the loop is done on a file with two header lines next to each
\* other and a rating line after them.
C22_Witness ==
    /\ pc = "nf_assign"
    /\ \E i \in DOMAIN df1 :
          /\ i + 2 <= Len(df1)
          /\ IsHeader(df1[i])
          /\ IsHeader(df1[i + 1])
          /\ ~IsHeader(df1[i + 2])

\* the movie number of the header line that most recently precedes line i
HeaderBefore(file, i) ==
    file[CHOOSE h \in 1..i :
             IsHeader(file[h]) /\ \A g \in 1..i : IsHeader(file[g]) => g <= h].Cust_Id

\* C23 (as claimed): in the cleaned frame the t-th row, which comes from the
\* t-th rating line of the file, carries the movie number of the header line
\* that most recently precedes that line.
C23_MovieIdIsHeaderNumber ==
    pc = "nf_cleaned" =>
        LET lines == SortedSeq(RatingLinesOf(df1))
        IN  \A t \in DOMAIN df :
                df[t].Movie_Id = HeaderBefore(df1, lines[t])

-----------------------------------------------------------------------------
(* Claims about the trimming of the Netflix frame and its use (SpecNF) *)

\* the number of rows of a frame whose column key holds x
CountOf(frame, key, x) == Cardinality({i \in DOMAIN frame : frame[i][key] = x})

\* a row whose movie and customer both reach their benchmark in the frame
ReachesBenchmarks(frame, row) ==
    /\ movie_benchmark # NaN => CountOf(frame, "Movie_Id", row.Movie_Id) >= movie_benchmark[1]
    /\ cust_benchmark # NaN => CountOf(frame, "Cust_Id", row.Cust_Id) >= cust_benchmark[1]

\* C24: the trimming step leaves exactly the rows, in their order, whose
\* movie had at least movie_benchmark ratings and whose customer had at least
\* cust_benchmark ratings in the untrimmed frame; so no row of a dropped movie
\* or customer stays and no row outside both drop lists goes.
C24_TrimKeepsExactlyRowsAtBenchmark ==
    [][pc = "nf_trim" =>
          /\ df' = SelectSeq(df, LAMBDA row : ReachesBenchmarks(df, row))
          /\ \A i \in DOMAIN df' :
                /\ df'[i].Movie_Id \notin drop_movie_list
                /\ df'[i].Cust_Id \notin drop_cust_list]_vars

\* C24 witness: the trimming has run with a movie and a customer on the drop
\* lists and has left some rows.
C24_Witness ==
    /\ pc = "nf_pivot"
    /\ df # <<>>
    /\ drop_movie_list # {}
    /\ drop_cust_list # {}

\* C25 (as claimed): counting the rows that remain after the trimming, every
\* remaining movie has at least movie_benchmark ratings and every remaining
\* customer at least cust_benchmark ratings.
C25_BenchmarksHoldInTrimmedData ==
    pc \in {"nf_pivot", "nf_title"} =>
        \A i \in DOMAIN df : ReachesBenchmarks(df, df[i])

\* C26: before the trimming, the customer filter followed by the movie filter
\* gives the frame the movie filter followed by the customer filter gives,
\* and a filter applied twice gives what it gives applied once; after the
\* trimming either filter leaves df as it is.
C26_FiltersCommuteAndAreIdempotent ==
    /\ pc = "nf_trim" =>
          /\ TrimMovies(TrimCusts(df, drop_cust_list), drop_movie_list)
                = TrimCusts(TrimMovies(df, drop_movie_list), drop_cust_list)
          /\ TrimMovies(TrimMovies(df, drop_movie_list), drop_movie_list)
                = TrimMovies(df, drop_movie_list)
          /\ TrimCusts(TrimCusts(df, drop_cust_list), drop_cust_list)
                = TrimCusts(df, drop_cust_list)
    /\ pc \in {"nf_pivot", "nf_title", "nf_evaluate", "nf_estimate", "nf_done"} =>
          /\ TrimMovies(df, drop_movie_list) = df
          /\ TrimCusts(df, drop_cust_list) = df

\* C26 witness: the drop lists stand, each filter removes a row the other
\* keeps, and a row passes both.
C26_Witness ==
    /\ pc = "nf_trim"
    /\ \E i, j, l \in DOMAIN df :
          /\ df[i].Movie_Id \in drop_movie_list
          /\ df[i].Cust_Id \notin drop_cust_list
          /\ df[j].Cust_Id \in drop_cust_list
          /\ df[j].Movie_Id \notin drop_movie_list
          /\ df[l].Movie_Id \notin drop_movie_list
          /\ df[l].Cust_Id \notin drop_cust_list

\* C27 (as claimed): every movie with an Estimate_Score is the movie of some
\* row of the trimmed df.
C27_ScoredMoviesOccurInTrimmedData ==
    pc = "nf_done" =>
        \A i \in DOMAIN user_683421 :
            \E j \in DOMAIN df : df[j].Movie_Id = user_683421[i].Movie_Id

-----------------------------------------------------------------------------
(* Netflix notebook: recommend(movie_title, min_count) *)

\* a customer the trimming dropped; the customers it left are CustIDs
DroppedCust == 9

\* the titles asked for (a title is written as the Movie_Id that carries it;
\* no line of movie_titles.csv carries title 5) and the min_count arguments
TitleArgs == {1, 2, 5}
MinCounts == {0, 2}

\* the notebook prints the first 10 rows; the model prints the first 2
TopCount == 2

FracMul(x, y) == Frac(x.n * y.n, x.d * y.d)

RECURSIVE FracSum(_)
FracSum(s) == IF s = <<>> THEN Frac(0, 1) ELSE FracAdd(Head(s), FracSum(Tail(s)))

Sign(x) == IF x > 0 THEN 1 ELSE IF x < 0 THEN -1 ELSE 0

\* the position of movie m among the columns of a pivot
ColumnOf(tbl, m) == CHOOSE c \in DOMAIN tbl.columns : tbl.columns[c] = m

\* Series.corr of columns a and b of the pivot (Pearson, min_periods = 1):
\* over the rows where both hold a value, r = sxy / sqrt(sxx * syy) with
\* sxy = n * sum(x*y) - sum(x) * sum(y); NaN without such rows or when a
\* column does not vary over them.  The value kept is sign(r) * r^2, which
\* is exact and orders as r orders.
PearsonR(tbl, a, b) ==
    LET both == SortedSeq({r \in DOMAIN tbl.vals :
                              tbl.vals[r][a] # NaN /\ tbl.vals[r][b] # NaN})
        x == [i \in DOMAIN both |-> tbl.vals[both[i]][a][1]]
        y == [i \in DOMAIN both |-> tbl.vals[both[i]][b][1]]
        n == Frac(Len(both), 1)
        S(u, v) == FracSub(FracMul(n, FracSum([i \in DOMAIN both |-> FracMul(u[i], v[i])])),
                           FracMul(FracSum(u), FracSum(v)))
        sxy == S(x, y)
        sxx == S(x, x)
        syy == S(y, y)
    IN  IF both = <<>> \/ sxx.n = 0 \/ syy.n = 0 THEN NaN
        ELSE <<Frac(Sign(sxy.n) * sxy.n * sxy.n * sxx.d * syy.d,
                    sxy.d * sxy.d * sxx.n * syy.n)>>

\* df_p.corrwith(target): one correlation per column of the pivot
CorrWith(tbl, target) ==
    [c \in DOMAIN tbl.columns |->
        [Movie_Id |-> tbl.columns[c], PearsonR |-> PearsonR(tbl, c, target)]]

\* corr_target.dropna(inplace = True)
DropNa(corr) == SelectSeq(corr, LAMBDA row : row.PearsonR # NaN)

\* .join(df_movie_summary): the count of the movie, NaN without a summary row
JoinCount(corr, summary) ==
    [i \in DOMAIN corr |->
        [Movie_Id |-> corr[i].Movie_Id,
         PearsonR |-> corr[i].PearsonR,
         count |-> IF corr[i].Movie_Id \in DOMAIN summary
                   THEN <<summary[corr[i].Movie_Id].count>> ELSE NaN]]

\* the bug "count >= min_count"
CountAtLeast(count, min_count) == count # NaN /\ count[1] >= min_count

\* corr_target['count'] > min_count; a comparison with NaN is False
CountAbove(count, min_count) == count # NaN /\ count[1] > min_count

\* the rows recommend prints for an order p of the sort by PearsonR
Printed(corr, p, summary, min_count) ==
    Take(SelectSeq(JoinCount(Reorder(corr, p), summary),
                   LAMBDA row : CountAbove(row.count, min_count)),
         TopCount)

\* recommend(movie_title, min_count): IndexError when no line of df_title
\* has the title, KeyError when the movie is no column of df_p
RecommendCall ==
    /\ pc = "nf_recommend"
    /\ \E movie_title \in TitleArgs, min_count \in MinCounts :
          LET call == [movie_title |-> movie_title, min_count |-> min_count]
              found == {t \in DOMAIN df_title : df_title[t] = movie_title}
          IN  IF found = {}
              THEN pc' = "IndexError" /\ ret' = call
              ELSE \E i \in {df_title[CHOOSE t \in found : \A u \in found : t <= u]} :
                     IF i \notin Range(df_p.columns)
                     THEN pc' = "KeyError" /\ ret' = call
                     ELSE \E corr \in {DropNa(CorrWith(df_p, ColumnOf(df_p, i)))} :
                            \E p \in SortDescOrders([t \in DOMAIN corr |-> corr[t].PearsonR]) :
                                /\ ret' = [movie_title |-> movie_title,
                                           min_count |-> min_count,
                                           i |-> i,
                                           printed |-> Printed(corr, p, df_movie_summary, min_count)]
                                /\ pc' = "nf_recommended"
    /\ UNCHANGED <<ratings_df, movies_df, R_df, user_ratings_mean, R_demeaned,
                   U, sigma, Vt, all_user_predicted_ratings, preds_df>>
    /\ UNCHANGED nfvars

\* the trimmed frames: movie after movie, the customers of a movie in
\* ascending order, each customer rating a movie at most once (f[t] = 0: the
\* customer has no line for the movie)
CorrFrames ==
    LET nc == Cardinality(CustIDs)
        cells == 1..(Cardinality(NFMovieIDs) * nc)
    IN  {SelectSeq([t \in cells |->
                       [Cust_Id |-> SortedSeq(CustIDs)[((t - 1) % nc) + 1],
                        Movie_Id |-> SortedSeq(NFMovieIDs)[((t - 1) \div nc) + 1],
                        Rating |-> f[t]]],
                   LAMBDA row : row.Rating # 0) :
            f \in [cells -> NFRatingVals \cup {0}]}

\* the rows of the dropped customer in the untrimmed frame
DroppedRows(movies) ==
    [t \in 1..Cardinality(movies) |->
        [Cust_Id |-> DroppedCust, Movie_Id |-> SortedSeq(movies)[t], Rating |-> 1]]

\* the notebook when recommend is called: df is the trimmed frame, df_p its
\* pivot, df_movie_summary the summary of the frame before the trimming
InitCorr ==
    /\ pc = "nf_recommend"
    /\ df1 = None
    /\ movie_np = None
    /\ df \in CorrFrames
    /\ \E movies \in SUBSET NFMovieIDs :
          /\ df_movie_summary = Summary(df \o DroppedRows(movies), "Movie_Id")
          /\ drop_cust_list = IF movies = {} THEN {} ELSE {DroppedCust}
    /\ movie_benchmark = None
    /\ drop_movie_list = {}
    /\ df_cust_summary = None
    /\ cust_benchmark = None
    /\ df_p = PivotTable(df)
    /\ df_title = TitlesFile
    /\ svd = None
    /\ user_683421 = None
    /\ MLIdle

NextCorr == RecommendCall

SpecCorr == InitCorr /\ [][NextCorr]_vars

-----------------------------------------------------------------------------
(* Claims about recommend of the Netflix notebook (SpecCorr) *)

\* the movies of df_p with a correlation to movie i and a count above min_count
Eligible(i, min_count) ==
    {m \in Range(df_p.columns) :
        /\ PearsonR(df_p, ColumnOf(df_p, m), ColumnOf(df_p, i)) # NaN
        /\ df_movie_summary[m].count > min_count}

\* C28: a call of recommend that returns prints at most TopCount movies (10 in
\* the notebook), no movie twice, in an order in which the correlation with
\* the movie asked for never increases, each with a count above min_count,
\* and no movie with a correlation and a count above min_count that is left
\* out has a higher correlation than a printed one; all such movies are
\* printed when there are TopCount of them or fewer.
C28_PrintsTopCorrelated ==
    pc = "nf_recommended" =>
        LET out == ret.printed
            eligible == Eligible(ret.i, ret.min_count)
        IN  /\ Len(out) = Min(TopCount, Cardinality(eligible))
            /\ \A a \in DOMAIN out :
                  /\ out[a].Movie_Id \in eligible
                  /\ out[a].count # NaN
                  /\ out[a].count[1] > ret.min_count
                  /\ out[a].count[1] = df_movie_summary[out[a].Movie_Id].count
                  /\ out[a].PearsonR =
                        PearsonR(df_p, ColumnOf(df_p, out[a].Movie_Id), ColumnOf(df_p, ret.i))
            /\ \A a, b \in DOMAIN out :
                  a < b => /\ out[a].Movie_Id # out[b].Movie_Id
                           /\ ~KeyLess(out[a].PearsonR, out[b].PearsonR)
            /\ \A m \in eligible :
                  (\A a \in DOMAIN out : out[a].Movie_Id # m) =>
                      \A a \in DOMAIN out :
                          ~KeyLess(out[a].PearsonR,
                                   PearsonR(df_p, ColumnOf(df_p, m), ColumnOf(df_p, ret.i)))

\* C28 witness: a call printed TopCount movies of falling correlation and
\* left out a movie that has a correlation and passes the count.
C28_Witness ==
    /\ pc = "nf_recommended"
    /\ Len(ret.printed) = TopCount
    /\ KeyLess(ret.printed[2].PearsonR, ret.printed[1].PearsonR)
    /\ \E m \in Eligible(ret.i, ret.min_count) :
          \A a \in DOMAIN ret.printed : ret.printed[a].Movie_Id # m

=============================================================================
